---- MODULE Spec2Model ----
(***************************************************************************)
(* Model of the slide-generation backend (server/index.js): the outline    *)
(* generator, the slide-content generator and the POST /api/generate       *)
(* handler with its Promise.all fan-out over the slide titles.             *)
(*                                                                         *)
(* JavaScript strings are modelled as sequences of tokens, so that a       *)
(* template literal is a concatenation.  A value that cannot be converted  *)
(* to a primitive (a JSON object such as {"toString":1,"valueOf":1}) is    *)
(* the distinguished value NoPrim: interpolating it throws a TypeError.    *)
(***************************************************************************)
EXTENDS Integers, Sequences, FiniteSets, TLC

VARIABLES req, hpc, titles, tasks, results, response, nResponses, call, ret,
          reordered, apiKey, outlineCalls, peak, img,
          themeDropdownOpen, menuDropdownOpen, mouse

\* reordered is a history variable: TRUE once some slide task has fulfilled
\* while a task of a smaller index was still running
\* apiKey is process.env.IDEOGRAM_API_KEY being set; outlineCalls counts the
\* outline completion calls of the request; peak is a history variable, the
\* largest number of completion calls of the request outstanding at one
\* moment so far; img is one POST /api/generate-image; themeDropdownOpen and
\* menuDropdownOpen are the state of ModernNavbar, and mouse holds the
\* element under a pressed mouse button and the last event with its effects
vars == <<req, hpc, titles, tasks, results, response, nResponses, call, ret, reordered,
          apiKey, outlineCalls, peak, img, themeDropdownOpen, menuDropdownOpen, mouse>>

hvars == <<req, hpc, titles, tasks, results, response, nResponses, reordered, outlineCalls,
           peak>>

fvars == <<call, ret>>

ivars == <<img>>

nvars == <<themeDropdownOpen, menuDropdownOpen, mouse>>

(***************************************************************************)
(* Bounds                                                                  *)
(***************************************************************************)
\* longest bullets/paragraphs array a completion returns
MaxItems == 7
\* longest title array (supplied outline or generated outline)
MaxTitles == 3
\* the slideCount of a request that gives one
MaxSlideCount == 3
\* longest supplied outline with an entry that is null or lacks a usable title
MaxOddOutline == 1
\* number of themes the navbar offers
MaxThemes == 4
\* largest slide index generateSlideContent is called with directly
MaxSlideIndex == 3
\* longest prompt of an image request, in characters
MaxPromptLen == 21

(***************************************************************************)
(* Values                                                                  *)
(***************************************************************************)
NoPrim == <<"{toString:1,valueOf:1}">>

Str(s) == <<s>>

Min(a, b) == IF a < b THEN a ELSE b

\* String.prototype.includes on token strings
Includes(s, t) ==
    \E i \in 0..(Len(s) - Len(t)) : SubSeq(s, i + 1, i + Len(t)) = t

Amounts == {"Minimal", "Concise", "Detailed", "Extensive", "Other"}

\* an element of a bullets/paragraphs array: a string (possibly with
\* surrounding white space) or a value without a trim method
Entry(tag, i, isStr, pad) == [isStr |-> isStr, text |-> <<tag, i>>, pad |-> pad]

Flavours == {"plain", "padded", "nonstr"}

MkItems(tag, n, fl) ==
    [i \in 1..n |->
        IF fl = "padded" THEN Entry(tag, i, TRUE, TRUE)
        ELSE IF fl = "nonstr" /\ i = n THEN Entry(tag, i, FALSE, FALSE)
        ELSE Entry(tag, i, TRUE, FALSE)]

ItemSeqs(tag) == { MkItems(tag, n, fl) : n \in 0..MaxItems, fl \in Flavours }

\* a property of a parsed object: an array, or anything else (absent, a
\* string, a number)
NotArray == [isArray |-> FALSE, items |-> <<>>]

ArrayOf(s) == [isArray |-> TRUE, items |-> s]

Fields(tag) == {NotArray} \cup { ArrayOf(s) : s \in ItemSeqs(tag) }

\* parsed JSON values
JNull == [kind |-> "null", items |-> <<>>, bullets |-> NotArray, paragraphs |-> NotArray]

JPrim == [kind |-> "prim", items |-> <<>>, bullets |-> NotArray, paragraphs |-> NotArray]

JArray(s) == [kind |-> "array", items |-> s, bullets |-> NotArray, paragraphs |-> NotArray]

JObject(b, p) == [kind |-> "object", items |-> <<>>, bullets |-> b, paragraphs |-> p]

\* the text of a completion: tokens that are a markdown fence, a complete
\* JSON document, or text that is not JSON
Fence == [tok |-> "fence", val |-> JNull]

Doc(v) == [tok |-> "json", val |-> v]

Garbage == [tok |-> "garbage", val |-> JNull]

\* the outcome of openai.chat.completions.create: a rejection, or a
\* completion whose first choice carries a (possibly empty) text
Rejected == [ok |-> FALSE, text |-> <<>>]

Completion(text) == [ok |-> TRUE, text |-> text]

Texts(vals) ==
    {<<>>, <<Garbage>>, <<Fence, Fence>>, <<Fence, Garbage, Fence>>}
        \cup { <<Doc(v)>> : v \in vals }
        \cup { <<Fence, Doc(v), Fence>> : v \in vals }

Completions(vals) == {Rejected} \cup { Completion(t) : t \in Texts(vals) }

(***************************************************************************)
(* Response cleaning and parsing (index.js lines 81-82 and 153-154)        *)
(***************************************************************************)
\* responseText.replace(/```json\s*|\s*```/g, '').trim()
CleanResponse(text) == SelectSeq(text, LAMBDA t : t.tok # "fence")

\* JSON.parse: a value, or a SyntaxError
ParseThrows(cleaned) == ~(Len(cleaned) = 1 /\ cleaned[1].tok = "json")

ParseValue(cleaned) == cleaned[1].val

(***************************************************************************)
(* generateOutline (index.js lines 63-92)                                  *)
(***************************************************************************)
\* the template literal of line 64 interpolates the topic
OutlinePromptThrows(topic) == topic = NoPrim

\* variant: the fallback titles do not mention the topic
FallbackOutlineGeneric(topic) ==
    << Str("Introduction"), Str("Key Concepts"), Str("Applications") >>

FallbackOutline(topic) ==
    << Str("Introduction to ") \o topic,
       Str("Key Concepts of ") \o topic,
       Str("Applications of ") \o topic >>

\* the body of the try block: threw is TRUE when control reaches the catch
OutlineTry(completion) ==
    IF ~completion.ok THEN [threw |-> TRUE, value |-> <<>>]
    ELSE IF completion.text = <<>> THEN [threw |-> TRUE, value |-> <<>>]
    ELSE LET cleaned == CleanResponse(completion.text) IN
         IF ParseThrows(cleaned) THEN [threw |-> TRUE, value |-> <<>>]
         ELSE LET parsed == ParseValue(cleaned) IN
              [threw |-> FALSE,
               value |-> IF parsed.kind = "array" THEN parsed.items ELSE <<>>]

\* the value the returned promise settles with: rejected is TRUE when the
\* error propagates to the caller
generateOutline(topic, numSlides, completion) ==
    IF OutlinePromptThrows(topic) THEN [rejected |-> TRUE, value |-> <<>>]
    ELSE LET r == OutlineTry(completion) IN
         IF r.threw THEN [rejected |-> FALSE, value |-> FallbackOutline(topic)]
         ELSE [rejected |-> FALSE, value |-> r.value]

(***************************************************************************)
(* generateSlideContent (index.js lines 95-201)                            *)
(***************************************************************************)
\* which prompt lines 100-135 build
PromptKind(slideIndex) ==
    IF slideIndex = 0 THEN "hook"
    ELSE IF slideIndex = 2 THEN "bullets"
    ELSE "paragraphs"

MaxTokens(slideIndex, amountOfText) ==
    IF slideIndex = 0 THEN 250
    ELSE IF slideIndex = 2 THEN
        IF amountOfText = "Extensive" THEN 200
        ELSE IF amountOfText = "Detailed" THEN 180
        ELSE IF amountOfText = "Concise" THEN 150
        ELSE 120
    ELSE IF amountOfText = "Detailed" THEN 180
    ELSE 200

\* every prompt interpolates the slide title and the topic
ContentPromptThrows(slideTitle, topic) == slideTitle = NoPrim \/ topic = NoPrim

\* paragraph.trim()
Trim(e) == [e EXCEPT !.pad = FALSE]

\* lines 157-165: the array the entries are taken from
UsesBullets(slideIndex) == slideIndex = 2

SelectThrows(parsed, slideIndex) ==
    \/ parsed.kind = "null"
    \/ /\ ~UsesBullets(slideIndex)
       /\ parsed.paragraphs.isArray
       /\ \E i \in 1..Len(parsed.paragraphs.items) : ~parsed.paragraphs.items[i].isStr

SelectEntries(parsed, slideIndex) ==
    IF UsesBullets(slideIndex)
    THEN IF parsed.bullets.isArray THEN parsed.bullets.items ELSE <<>>
    ELSE LET paragraphs == IF parsed.paragraphs.isArray THEN parsed.paragraphs.items ELSE <<>>
         IN [i \in 1..Len(paragraphs) |-> Trim(paragraphs[i])]

\* lines 168-190
BulletCap(amountOfText) ==
    IF amountOfText = "Extensive" THEN 6
    ELSE IF amountOfText = "Detailed" THEN 5
    ELSE IF amountOfText = "Concise" THEN 4
    ELSE 3

ParagraphCap(amountOfText) ==
    IF amountOfText = "Extensive" THEN 2
    ELSE IF amountOfText = "Detailed" THEN 2
    ELSE IF amountOfText = "Concise" THEN 1
    ELSE 2

\* variant: the third slide is capped like any other slide
MaxParagraphsNoThird(slideIndex, amountOfText) ==
    IF slideIndex = 0 THEN 1 ELSE ParagraphCap(amountOfText)

MaxParagraphs(slideIndex, amountOfText) ==
    IF slideIndex = 0 THEN 1
    ELSE IF slideIndex = 2 THEN BulletCap(amountOfText)
    ELSE ParagraphCap(amountOfText)

\* Array.prototype.slice(0, n)
Slice(s, n) == SubSeq(s, 1, Min(n, Len(s)))

Placeholder(text) == [isStr |-> TRUE, text |-> <<text, 0>>, pad |-> FALSE]

\* variant: the fallback ignores the slide index
FallbackContentNoIndex(slideIndex) ==
    << Placeholder("Sample professional paragraph 1"),
       Placeholder("Sample professional paragraph 2") >>

FallbackContent(slideIndex) ==
    IF slideIndex = 0
    THEN << Placeholder("Sample professional opening paragraph for slide one.") >>
    ELSE << Placeholder("Sample professional paragraph 1"),
            Placeholder("Sample professional paragraph 2") >>

ContentTry(amountOfText, slideIndex, completion) ==
    IF ~completion.ok THEN [threw |-> TRUE, bullets |-> <<>>]
    ELSE IF completion.text = <<>> THEN [threw |-> TRUE, bullets |-> <<>>]
    ELSE LET cleaned == CleanResponse(completion.text) IN
         IF ParseThrows(cleaned) THEN [threw |-> TRUE, bullets |-> <<>>]
         ELSE LET parsed == ParseValue(cleaned) IN
              IF SelectThrows(parsed, slideIndex) THEN [threw |-> TRUE, bullets |-> <<>>]
              ELSE [threw |-> FALSE,
                    bullets |-> Slice(SelectEntries(parsed, slideIndex),
                                      MaxParagraphs(slideIndex, amountOfText))]

generateSlideContent(slideTitle, topic, amountOfText, slideIndex, completion) ==
    IF ContentPromptThrows(slideTitle, topic) THEN [rejected |-> TRUE, bullets |-> <<>>]
    ELSE LET r == ContentTry(amountOfText, slideIndex, completion) IN
         IF r.threw THEN [rejected |-> FALSE, bullets |-> FallbackContent(slideIndex)]
         ELSE [rejected |-> FALSE, bullets |-> r.bullets]

(***************************************************************************)
(* Inputs                                                                  *)
(***************************************************************************)
TitleNames == <<"Alpha", "Beta", "Gamma", "Delta", "Epsilon">>

Title(i) == Str(TitleNames[i])

\* title arrays: distinct titles, optionally with an unconvertible last one
MkTitles(n, bad) == [i \in 1..n |-> IF bad /\ i = n THEN NoPrim ELSE Title(i)]

TitleSeqs == { MkTitles(n, bad) : n \in 0..MaxTitles, bad \in BOOLEAN }

Topics == {Str("Solar Power"), NoPrim}

OutlineValues ==
    {JNull, JPrim, JObject(NotArray, NotArray)} \cup { JArray(t) : t \in TitleSeqs }

ContentValues ==
    {JNull, JPrim, JArray(<<>>)}
        \cup { JObject(b, p) : b \in Fields("b"), p \in Fields("p") }

OutlineCalls ==
    [fn : {"generateOutline"}, topic : Topics, slideTitle : {<<>>},
     numSlides : 1..MaxSlideCount, amountOfText : {"Minimal"}, slideIndex : {0},
     completion : Completions(OutlineValues)]

ContentCalls ==
    [fn : {"generateSlideContent"}, topic : {Str("Solar Power")},
     slideTitle : {Title(1), NoPrim},
     numSlides : {0}, amountOfText : Amounts, slideIndex : 0..MaxSlideIndex,
     completion : Completions(ContentValues)]

NoCall ==
    [fn |-> "none", topic |-> <<>>, slideTitle |-> <<>>, numSlides |-> 0,
     amountOfText |-> "Minimal", slideIndex |-> 0, completion |-> Rejected]

Pending == [state |-> "pending", value |-> <<>>, promptKind |-> "none", maxTokens |-> 0]

(***************************************************************************)
(* The two generators called on their own                                  *)
(***************************************************************************)
CallGenerateOutline ==
    /\ call.fn = "generateOutline"
    /\ ret.state = "pending"
    /\ LET r == generateOutline(call.topic, call.numSlides, call.completion) IN
       ret' = [state |-> IF r.rejected THEN "threw" ELSE "returned",
               value |-> r.value, promptKind |-> "outline", maxTokens |-> 200]
    /\ UNCHANGED <<call, hvars, apiKey, ivars, nvars>>

CallGenerateSlideContent ==
    /\ call.fn = "generateSlideContent"
    /\ ret.state = "pending"
    /\ LET r == generateSlideContent(call.slideTitle, call.topic, call.amountOfText,
                                     call.slideIndex, call.completion) IN
       ret' = [state |-> IF r.rejected THEN "threw" ELSE "returned",
               value |-> r.bullets,
               promptKind |-> PromptKind(call.slideIndex),
               maxTokens |-> MaxTokens(call.slideIndex, call.amountOfText)]
    /\ UNCHANGED <<call, hvars, apiKey, ivars, nvars>>

\* what generateIdeogramImage resolves with when there is no image: null
NoImage == <<>>

(***************************************************************************)
(* generateImageFilename (index.js lines 56-60)                            *)
(***************************************************************************)
\* the characters of the prompts that [a-zA-Z0-9] matches; " " and "-" are not
AlnumChars == {"a", "B", "7"}

MaxFragment == 20

\* variant: the characters are removed instead of replaced
StripNonAlnum(chars) == SelectSeq(chars, LAMBDA c : c \in AlnumChars)

\* prompt.replace(/[^a-zA-Z0-9]/g, '_')
ReplaceNonAlnum(chars) ==
    [i \in 1..Len(chars) |-> IF chars[i] \in AlnumChars THEN chars[i] ELSE "_"]

\* .substring(0, 20)
Substring(chars, n) == SubSeq(chars, 1, Min(n, Len(chars)))

SanitizedPrompt(chars) == Substring(ReplaceNonAlnum(chars), MaxFragment)

\* `slide_${index}_${sanitizedPrompt}_${timestamp}.jpg`, timestamp = Date.now()
generateImageFilename(chars, index, timestamp) ==
    <<"slide_", index, "_", SanitizedPrompt(chars), "_", timestamp, ".jpg">>

(***************************************************************************)
(* generateIdeogramImage and downloadAndSaveImage (index.js lines 37-53    *)
(* and 204-245), and POST /api/generate-image (lines 319-327)              *)
(***************************************************************************)
\* a prompt argument: a string, a value that is not a string (a number), or
\* a value that cannot be converted to a string
StrPrompt(chars) == [kind |-> "str", chars |-> chars]

NumPrompt == [kind |-> "num", chars |-> <<>>]

NoPrimPrompt == [kind |-> "noprim", chars |-> <<>>]

NoFilename == <<>>

\* the state of one call of generateIdeogramImage: where it is suspended,
\* the calls it has issued, and what it has resolved or rejected with
ImageCall(pc, posts, gets, writes, filename, url, rejected) ==
    [pc |-> pc, posts |-> posts, gets |-> gets, writes |-> writes,
     filename |-> filename, url |-> url, rejected |-> rejected]

NotCalled == ImageCall("idle", 0, 0, 0, NoFilename, NoImage, FALSE)

\* variant: the error is rethrown instead of being turned into null
ResolveRethrow(ic) == [ic EXCEPT !.pc = "done", !.url = NoImage, !.rejected = TRUE]

\* the catch of lines 240-244: resolve with null
ResolveNull(ic) == [ic EXCEPT !.pc = "done", !.url = NoImage]

\* `/uploads/${filename}`
LocalUrl(filename) == <<"/uploads/", filename>>

\* lines 205-224: up to the await of axios.post
ImageStart(prompt, styleThrows, key) ==
    IF prompt.kind = "noprim" \/ styleThrows THEN ResolveNull(NotCalled)
    ELSE IF ~key THEN ResolveNull(NotCalled)
    ELSE ImageCall("post", 1, 0, 0, NoFilename, NoImage, FALSE)

PostOutcomes == {"reject", "nourl", "url"}

\* lines 226-239 and 38-42: axios.post settles; with a URL the file name is
\* built and axios.get is issued
PostReturns(ic, outcome, prompt, filename) ==
    IF outcome # "url" THEN ResolveNull(ic)
    ELSE IF prompt.kind # "str" THEN ResolveNull(ic)
    ELSE [ic EXCEPT !.pc = "get", !.gets = ic.gets + 1, !.filename = filename]

GetOutcomes == {"reject", "ok"}

\* lines 44-52 and 230-236: axios.get settles; the bytes are written with
\* fs.writeFileSync, which may throw
GetReturns(ic, outcome, writeOk) ==
    IF outcome # "ok" THEN ResolveNull(ic)
    ELSE IF ~writeOk THEN ResolveNull([ic EXCEPT !.writes = ic.writes + 1])
    ELSE [ic EXCEPT !.pc = "done", !.writes = ic.writes + 1, !.url = LocalUrl(ic.filename)]

\* prompts of MaxPromptLen characters at most
PromptPatterns == {"alnum", "spaced", "punct"}

MkPrompt(n, pat) ==
    [i \in 1..n |->
        IF pat = "spaced" /\ i % 3 = 0 THEN " "
        ELSE IF pat = "punct" /\ i % 2 = 1 THEN "-"
        ELSE IF i % 3 = 1 THEN "a" ELSE IF i % 3 = 2 THEN "B" ELSE "7"]

Prompts ==
    {NumPrompt, NoPrimPrompt}
        \cup { StrPrompt(MkPrompt(n, pat)) : n \in 0..MaxPromptLen, pat \in PromptPatterns }

Timestamps == {1000, 1001}

ImageRequests == [prompt : Prompts, styleThrows : BOOLEAN, slideIndex : {0, 1}]

NoImageResponse == [status |-> 0, imageUrl |-> NoImage]

\* img.settled is a history of how the outbound calls and the file write of
\* the request ended

\* the request arrives: lines 320-322 up to the first suspension
ImageRequestStart ==
    /\ img.call.pc = "idle"
    /\ img.response.status = 0
    /\ img' = [img EXCEPT !.call = ImageStart(img.req.prompt, img.req.styleThrows, apiKey)]
    /\ UNCHANGED <<hvars, fvars, apiKey, nvars>>

ImagePostReturns ==
    /\ img.call.pc = "post"
    /\ \E outcome \in PostOutcomes, timestamp \in Timestamps :
          img' = [img EXCEPT !.call =
                     PostReturns(img.call, outcome, img.req.prompt,
                                 generateImageFilename(img.req.prompt.chars,
                                                       img.req.slideIndex, timestamp)),
                             !.settled = Append(img.settled, outcome)]
    /\ UNCHANGED <<hvars, fvars, apiKey, nvars>>

ImageGetReturns ==
    /\ img.call.pc = "get"
    /\ \E outcome \in GetOutcomes, writeOk \in BOOLEAN :
          img' = [img EXCEPT !.call = GetReturns(img.call, outcome, writeOk),
                             !.settled = img.settled \o
                                 (IF outcome # "ok" THEN <<"get-reject">>
                                  ELSE IF writeOk THEN <<"ok", "written">>
                                  ELSE <<"ok", "write-throws">>)]
    /\ UNCHANGED <<hvars, fvars, apiKey, nvars>>

\* lines 323-326: res.json({ imageUrl }), or the 500 of the catch
ImageRespond ==
    /\ img.call.pc = "done"
    /\ img.response.status = 0
    /\ img' = [img EXCEPT !.response =
                  IF img.call.rejected THEN [status |-> 500, imageUrl |-> NoImage]
                  ELSE [status |-> 200, imageUrl |-> img.call.url]]
    /\ UNCHANGED <<hvars, fvars, apiKey, nvars>>

NoImageRequest ==
    [req |-> [prompt |-> NumPrompt, styleThrows |-> FALSE, slideIndex |-> 0],
     call |-> NotCalled, response |-> NoImageResponse, settled |-> <<>>]

(***************************************************************************)
(* POST /api/generate (index.js lines 248-312)                             *)
(***************************************************************************)
DefaultSlides == 5

\* an outline entry: an object with a (possibly missing) title, or null
OutlineEntry(title) == [isObj |-> TRUE, title |-> title]

NullEntry == [isObj |-> FALSE, title |-> <<>>]

OutlineVariants == {"plain", "untitled-first", "null-last", "noprim-last"}

MkOutline(n, v) ==
    [i \in 1..n |->
        IF v = "untitled-first" /\ i = 1 THEN OutlineEntry(<<>>)
        ELSE IF v = "null-last" /\ i = n THEN NullEntry
        ELSE IF v = "noprim-last" /\ i = n THEN OutlineEntry(NoPrim)
        ELSE OutlineEntry(Title(i))]

Outlines ==
    { MkOutline(n, "plain") : n \in 0..MaxTitles }
        \cup { MkOutline(n, v) : n \in 1..MaxOddOutline, v \in OutlineVariants }

\* slideCount is read only when the outline is empty (line 252), so it
\* varies only there
Requests ==
    { r \in [title : Topics, outline : Outlines, slideCount : {0, MaxSlideCount},
             amountOfText : {"Concise", "Extensive"}, imageSource : {"None", "Ideogram"},
             imageStyle : {Str("photo"), NoPrim}] :
          Len(r.outline) # 0 => r.slideCount = 0 }

\* the completions the handler's calls are answered with
HandlerOutlineCompletions ==
    {Rejected, Completion(<<Doc(JPrim)>>)}
        \cup { Completion(<<Fence, Doc(JArray(t)), Fence>>) : t \in TitleSeqs }

\* how the image calls of the handler's slides settle
HandlerPostOutcomes == {"reject", "url"}

HandlerGetOutcomes == {"reject", "ok"}

HandlerContentCompletions ==
    {Rejected,
     Completion(<<Doc(JObject(ArrayOf(MkItems("b", 4, "plain")),
                              ArrayOf(MkItems("p", 2, "padded"))))>>)}

\* line 252
NumSlides(r) ==
    IF Len(r.outline) # 0 THEN Len(r.outline)
    ELSE IF r.slideCount # 0 THEN r.slideCount ELSE DefaultSlides

\* line 253: outline && outline.length && outline[0].title
OutlineHasTitles(r) == Len(r.outline) # 0 /\ r.outline[1].title # <<>>

\* reading .title of an entry that is null throws
OutlineReadThrows(r) ==
    \/ Len(r.outline) # 0 /\ ~r.outline[1].isObj
    \/ OutlineHasTitles(r) /\ \E i \in 1..Len(r.outline) : ~r.outline[i].isObj

OutlineMap(r) == [i \in 1..Len(r.outline) |-> r.outline[i].title]

NoResponse == [status |-> 0, slides |-> <<>>, meta |-> <<>>]

ErrorResponse == [status |-> 500, slides |-> <<>>, meta |-> <<>>]

Meta(r) ==
    [title |-> r.title, amountOfText |-> r.amountOfText,
     imageSource |-> r.imageSource, imageStyle |-> r.imageStyle]

OkResponse(slides, r) == [status |-> 200, slides |-> slides, meta |-> <<Meta(r)>>]

\* a slot of the Promise.all value array that no task has filled
EmptySlot ==
    [id |-> <<"", 0>>, title |-> <<>>, bullets |-> <<>>, layout |-> "", image |-> <<>>]

\* lines 266-276
LayoutOptions == <<"image-left", "image-right", "image-bottom", "text-only">>

\* variant: the first slide draws its layout like the others
ChooseLayoutAllRandom(idx, randomIndex) == LayoutOptions[randomIndex + 1]

ChooseLayout(idx, randomIndex) ==
    IF idx = 0 THEN "image-left" ELSE LayoutOptions[randomIndex + 1]

\* lines 278-290
SlideId(idx) == <<"slide-", idx + 1>>

SlideRecord(idx, slideTitle, bullets, layout, imageUrl, r) ==
    [id |-> SlideId(idx), title |-> slideTitle, bullets |-> bullets, layout |-> layout,
     image |-> IF imageUrl # NoImage
               THEN <<[url |-> imageUrl, alt |-> slideTitle,
                       source |-> r.imageSource, style |-> r.imageStyle]>>
               ELSE <<>>]

\* variant: the values are collected in the order the tasks complete
StoreResultInCompletionOrder(res, i, v) ==
    LET k == CHOOSE k \in 1..Len(res) :
                 /\ res[k].id = <<"", 0>>
                 /\ \A j \in 1..(k - 1) : res[j].id # <<"", 0>>
    IN [res EXCEPT ![k] = v]

\* Promise.all keeps each fulfilment value at the index of its promise
StoreResult(res, i, v) == [res EXCEPT ![i] = v]

\* variant: the join fulfils as soon as one task has fulfilled
JoinOutcomeAny(ts) ==
    IF \E i \in DOMAIN ts : ts[i].pc = "rejected" THEN "rejected"
    ELSE IF \E i \in DOMAIN ts : ts[i].pc = "fulfilled" THEN "fulfilled"
    ELSE "pending"

\* Promise.all rejects with the first rejection and fulfils once every
\* promise has fulfilled
JoinOutcome(ts) ==
    IF \E i \in DOMAIN ts : ts[i].pc = "rejected" THEN "rejected"
    ELSE IF \A i \in DOMAIN ts : ts[i].pc = "fulfilled" THEN "fulfilled"
    ELSE "pending"

\* the continuation of the handler after Promise.all settles: res.json or
\* the catch block
Settle(ts, res, r) ==
    LET o == JoinOutcome(ts) IN
    IF o = "rejected"
    THEN /\ hpc' = "done" /\ response' = ErrorResponse /\ nResponses' = nResponses + 1
    ELSE IF o = "fulfilled"
    THEN /\ hpc' = "done" /\ response' = OkResponse(res, r) /\ nResponses' = nResponses + 1
    ELSE /\ hpc' = "join" /\ UNCHANGED <<response, nResponses>>

\* a slide task: where it is suspended, its content, the completion calls
\* it has issued, how often it has invoked the image client, the image API
\* calls it has issued, the running image call and the local imageUrl
Task(pc, bullets, contentCalls, invoked, imageCalls, ic, imageUrl) ==
    [pc |-> pc, bullets |-> bullets, contentCalls |-> contentCalls, invoked |-> invoked,
     imageCalls |-> imageCalls, ic |-> ic, imageUrl |-> imageUrl]

Max(a, b) == IF a > b THEN a ELSE b

\* the completion calls outstanding: the outline call and the content calls
OutstandingCompletions(pc, ts) ==
    (IF pc = "outline" THEN 1 ELSE 0) + Cardinality({i \in DOMAIN ts : ts[i].pc = "content"})

\* the image API calls outstanding: generation requests and downloads
OutstandingImageCalls(ts) == Cardinality({i \in DOMAIN ts : ts[i].pc = "image"})

\* line 258: the map callback runs for every title up to its first await
FanOut(ts, r) ==
    /\ titles' = ts
    /\ tasks' = [i \in 1..Len(ts) |->
                    IF ContentPromptThrows(ts[i], r.title)
                    THEN Task("rejected", <<>>, 0, 0, 0, NotCalled, NoImage)
                    ELSE Task("content", <<>>, 1, 0, 0, NotCalled, NoImage)]
    /\ results' = [i \in 1..Len(ts) |-> EmptySlot]
    /\ peak' = Max(peak, OutstandingCompletions("join", tasks'))
    /\ Settle(tasks', results', r)

Fail ==
    /\ hpc' = "done" /\ response' = ErrorResponse /\ nResponses' = nResponses + 1
    /\ UNCHANGED <<titles, tasks, results, peak>>

\* the request arrives: lines 249-255
Start ==
    /\ hpc = "start"
    /\ IF OutlineReadThrows(req) THEN Fail /\ UNCHANGED outlineCalls
       ELSE IF OutlineHasTitles(req) THEN FanOut(OutlineMap(req), req) /\ UNCHANGED outlineCalls
       ELSE IF OutlinePromptThrows(req.title) THEN Fail /\ UNCHANGED outlineCalls
       ELSE /\ hpc' = "outline"
            /\ outlineCalls' = outlineCalls + 1
            /\ peak' = Max(peak, OutstandingCompletions("outline", tasks))
            /\ UNCHANGED <<titles, tasks, results, response, nResponses>>
    /\ UNCHANGED <<req, reordered, fvars, apiKey, ivars, nvars>>

\* the outline completion call settles: lines 255-258
OutlineReturns ==
    /\ hpc = "outline"
    /\ \E c \in HandlerOutlineCompletions :
          FanOut(generateOutline(req.title, NumSlides(req), c).value, req)
    /\ UNCHANGED <<req, reordered, outlineCalls, fvars, apiKey, ivars, nvars>>

\* lines 265-291: the task fulfils with its slide record
FinishTask(i, t, imageUrl) ==
    \E randomIndex \in 0..(Len(LayoutOptions) - 1) :
        /\ tasks' = [tasks EXCEPT ![i] = [t EXCEPT !.pc = "fulfilled", !.ic = NotCalled,
                                                   !.imageUrl = imageUrl]]
        /\ results' = StoreResult(results, i,
                         SlideRecord(i - 1, titles[i], t.bullets,
                                     ChooseLayout(i - 1, randomIndex), imageUrl, req))
        /\ reordered' = (reordered \/ \E j \in 1..(i - 1) : tasks[j].pc \in {"content", "image"})

\* the handler continues only if Promise.all has not settled before
Continue ==
    IF hpc = "join" THEN Settle(tasks', results', req)
    ELSE UNCHANGED <<hpc, response, nResponses>>

\* variant: the image client is invoked whatever imageSource is
WantsImageAlways(r) == TRUE

\* line 261
WantsImage(r) == r.imageSource # "None"

\* line 262: slideTitle + ' ' + (imageStyle || '')
ImagePromptThrows(r) == r.imageStyle = NoPrim

\* the prompt of a slide's image is a string; its characters are not modelled
HandlerPrompt == StrPrompt(<<>>)

\* the file name of a slide's image, without the prompt fragment and the
\* timestamp
HandlerFilename(idx) == <<"slide_", idx, ".jpg">>

\* the image client has resolved, or is suspended at a call
AfterImageStep(i, t, ic) ==
    IF ic.pc = "done"
    THEN FinishTask(i, t, ic.url)
    ELSE /\ tasks' = [tasks EXCEPT ![i] = [t EXCEPT !.pc = "image", !.ic = ic]]
         /\ UNCHANGED <<results, reordered>>

\* the content completion call of slide i settles: lines 259-263
ContentReturns(i) ==
    /\ tasks[i].pc = "content"
    /\ \E c \in HandlerContentCompletions :
        LET content == generateSlideContent(titles[i], req.title, req.amountOfText, i - 1, c)
            t == [tasks[i] EXCEPT !.bullets = content.bullets]
        IN
        IF WantsImage(req)
        THEN IF ImagePromptThrows(req)
             THEN /\ tasks' = [tasks EXCEPT ![i] = [t EXCEPT !.pc = "rejected"]]
                  /\ UNCHANGED <<results, reordered>>
             ELSE LET ic == ImageStart(HandlerPrompt, FALSE, apiKey) IN
                  AfterImageStep(i, [t EXCEPT !.invoked = t.invoked + 1,
                                              !.imageCalls = t.imageCalls + ic.posts], ic)
        ELSE FinishTask(i, t, NoImage)
    /\ Continue
    /\ UNCHANGED <<req, titles, outlineCalls, peak, fvars, apiKey, ivars, nvars>>

\* a call of generateIdeogramImage of slide i settles: line 262
ImageReturns(i) ==
    /\ tasks[i].pc = "image"
    /\ IF tasks[i].ic.pc = "post"
       THEN \E outcome \in HandlerPostOutcomes :
               AfterImageStep(i, tasks[i],
                   PostReturns(tasks[i].ic, outcome, HandlerPrompt, HandlerFilename(i - 1)))
       ELSE \E outcome \in HandlerGetOutcomes :
               AfterImageStep(i, tasks[i], GetReturns(tasks[i].ic, outcome, TRUE))
    /\ Continue
    /\ UNCHANGED <<req, titles, outlineCalls, peak, fvars, apiKey, ivars, nvars>>

(***************************************************************************)
(* ModernNavbar (src/components/molecules/ModernNavbar.tsx)                *)
(***************************************************************************)
ThemeKeys == <<"light", "dark", "ocean", "forest", "sunset">>

\* the elements a mouse event can have as target
El(el, key) == [el |-> el, key |-> key]

NoElement == El("none", "")

Buttons ==
    {El("themeButton", ""), El("presentButton", ""), El("menuButton", ""),
     El("exportButton", ""), El("settingsButton", "")}
        \cup { El("themeItem", ThemeKeys[k]) : k \in 1..MaxThemes }

\* the page outside the navbar, the logo, and the parts of the two panels
\* that are not buttons
Targets ==
    Buttons \cup {El("page", ""), El("logo", ""), El("themePanel", ""), El("menuPanel", "")}

\* lines 59-112: the subtree of themeDropdownRef
InThemeContainer(t) == t.el \in {"themeButton", "themePanel", "themeItem"}

\* lines 132-170: the subtree of menuDropdownRef
InMenuContainer(t) == t.el \in {"menuButton", "menuPanel", "exportButton", "settingsButton"}

\* lines 78 and 142: the panels are rendered only while open
Rendered(t) ==
    /\ t.el \in {"themePanel", "themeItem"} => themeDropdownOpen
    /\ t.el \in {"menuPanel", "exportButton", "settingsButton"} => menuDropdownOpen

\* lines 33-35
ThemeAfterMouseDown(t) == IF ~InThemeContainer(t) THEN FALSE ELSE themeDropdownOpen

\* variant: the menu dropdown is not closed by a mousedown outside it
MenuAfterMouseDownKept(t) == menuDropdownOpen

\* lines 36-38
MenuAfterMouseDown(t) == IF ~InMenuContainer(t) THEN FALSE ELSE menuDropdownOpen

Callback(name, key) == [name |-> name, key |-> key]

Event(kind, target, emitted) == [kind |-> kind, target |-> target, emitted |-> emitted]

\* handleClickOutside, the document's mousedown listener: lines 32-39
MouseDown(t) ==
    /\ Rendered(t)
    /\ themeDropdownOpen' = ThemeAfterMouseDown(t)
    /\ menuDropdownOpen' = MenuAfterMouseDown(t)
    /\ mouse' = [mouse EXCEPT !.pressed = t, !.last = Event("mousedown", t, <<>>)]
    /\ UNCHANGED <<hvars, fvars, apiKey, ivars>>

\* the onClick handlers: lines 61, 87-90, 119, 134, 146-149, 158
OnClick(t, kind) ==
    /\ themeDropdownOpen' =
          (IF t.el = "themeButton" THEN ~themeDropdownOpen
           ELSE IF t.el = "themeItem" THEN FALSE
           ELSE themeDropdownOpen)
    /\ menuDropdownOpen' =
          (IF t.el = "menuButton" THEN ~menuDropdownOpen
           ELSE IF t.el \in {"exportButton", "settingsButton"} THEN FALSE
           ELSE menuDropdownOpen)
    /\ mouse' = [mouse EXCEPT
          !.pressed = NoElement,
          !.mouseOnly = (mouse.mouseOnly /\ kind = "click"),
          !.last = Event(kind, t,
                      IF t.el = "themeItem" THEN <<Callback("onThemeChange", t.key)>>
                      ELSE IF t.el = "presentButton" THEN <<Callback("onPresent", "")>>
                      ELSE IF t.el = "exportButton" THEN <<Callback("onExport", "")>>
                      ELSE <<>>)]

\* the mouse button is released over the button it was pressed on
Click(t) ==
    /\ mouse.pressed = t
    /\ Rendered(t)
    /\ OnClick(t, "click")
    /\ UNCHANGED <<hvars, fvars, apiKey, ivars>>

\* the mouse button is released somewhere else: no click event
Release ==
    /\ mouse.pressed # NoElement
    /\ mouse' = [mouse EXCEPT !.pressed = NoElement]
    /\ UNCHANGED <<themeDropdownOpen, menuDropdownOpen, hvars, fvars, apiKey, ivars>>

\* a button is activated from the keyboard: a click without a mousedown
KeyClick(t) ==
    /\ mouse.pressed = NoElement
    /\ Rendered(t)
    /\ OnClick(t, "keyclick")
    /\ UNCHANGED <<hvars, fvars, apiKey, ivars>>

\* mouse.mouseOnly is a history variable: no button was activated without a
\* mousedown so far
NoMouse == [pressed |-> NoElement, mouseOnly |-> TRUE, last |-> Event("none", NoElement, <<>>)]

(***************************************************************************)
(* Specifications                                                          *)
(***************************************************************************)
Init ==
    /\ req \in Requests
    /\ hpc = "start"
    /\ titles = <<>>
    /\ tasks = <<>>
    /\ results = <<>>
    /\ response = NoResponse
    /\ nResponses = 0
    /\ reordered = FALSE
    /\ outlineCalls = 0
    /\ peak = 0
    /\ apiKey \in IF WantsImage(req) THEN BOOLEAN ELSE {TRUE}
    /\ call = NoCall
    /\ ret = Pending
    /\ img = NoImageRequest
    /\ themeDropdownOpen = FALSE
    /\ menuDropdownOpen = FALSE
    /\ mouse = NoMouse

Next ==
    \/ Start
    \/ OutlineReturns
    \/ \E i \in DOMAIN tasks : ContentReturns(i)
    \/ \E i \in DOMAIN tasks : ImageReturns(i)

Spec == Init /\ [][Next]_vars

InitFn ==
    /\ call \in OutlineCalls \cup ContentCalls
    /\ ret = Pending
    /\ req = CHOOSE r \in Requests : TRUE
    /\ hpc = "idle"
    /\ titles = <<>>
    /\ tasks = <<>>
    /\ results = <<>>
    /\ response = NoResponse
    /\ nResponses = 0
    /\ reordered = FALSE
    /\ outlineCalls = 0
    /\ peak = 0
    /\ apiKey = TRUE
    /\ img = NoImageRequest
    /\ themeDropdownOpen = FALSE
    /\ menuDropdownOpen = FALSE
    /\ mouse = NoMouse

NextFn ==
    \/ CallGenerateOutline
    \/ CallGenerateSlideContent

SpecFn == InitFn /\ [][NextFn]_vars

InitImg ==
    /\ img \in [req : ImageRequests, call : {NotCalled}, response : {NoImageResponse},
                settled : {<<>>}]
    /\ apiKey \in BOOLEAN
    /\ call = NoCall
    /\ ret = Pending
    /\ req = CHOOSE r \in Requests : TRUE
    /\ hpc = "idle"
    /\ titles = <<>>
    /\ tasks = <<>>
    /\ results = <<>>
    /\ response = NoResponse
    /\ nResponses = 0
    /\ reordered = FALSE
    /\ outlineCalls = 0
    /\ peak = 0
    /\ themeDropdownOpen = FALSE
    /\ menuDropdownOpen = FALSE
    /\ mouse = NoMouse

NextImg ==
    \/ ImageRequestStart
    \/ ImagePostReturns
    \/ ImageGetReturns
    \/ ImageRespond

SpecImg == InitImg /\ [][NextImg]_vars

InitNav ==
    /\ themeDropdownOpen = FALSE
    /\ menuDropdownOpen = FALSE
    /\ mouse = NoMouse
    /\ img = NoImageRequest
    /\ apiKey = TRUE
    /\ call = NoCall
    /\ ret = Pending
    /\ req = CHOOSE r \in Requests : TRUE
    /\ hpc = "idle"
    /\ titles = <<>>
    /\ tasks = <<>>
    /\ results = <<>>
    /\ response = NoResponse
    /\ nResponses = 0
    /\ reordered = FALSE
    /\ outlineCalls = 0
    /\ peak = 0

NextNav ==
    \/ \E t \in Targets : MouseDown(t)
    \/ \E t \in Buttons : Click(t)
    \/ Release
    \/ \E t \in Buttons : KeyClick(t)

SpecNav == InitNav /\ [][NextNav]_vars

(***************************************************************************)
(* Properties of POST /api/generate                                        *)
(***************************************************************************)
Responded == response.status = 200

\* C1: whatever the order in which the slide tasks complete, the slides of
\* the response are in the order of the titles: the record at position i
\* (0-based) has the i-th title and the id "slide-" followed by i+1; every
\* slot a task has filled so far already sits at the index of its title.
C1_OrderPreserved ==
    /\ Responded =>
          /\ Len(response.slides) = Len(titles)
          /\ \A i \in 1..Len(titles) :
                /\ response.slides[i].title = titles[i]
                /\ response.slides[i].id = <<"slide-", i>>
    /\ \A i \in DOMAIN tasks :
          tasks[i].pc = "fulfilled" =>
              /\ results[i].title = titles[i]
              /\ results[i].id = <<"slide-", i>>

\* a response of three slides whose tasks completed out of index order
C1_Witness ==
    /\ Responded
    /\ reordered
    /\ Len(response.slides) = 3

\* C2: with an empty outline the generator produces exactly N titles and the
\* response has exactly N slides, N being slideCount if given and 5
\* otherwise, for every outcome of the outline completion call.
C2_ExactlyNSlides ==
    (Len(req.outline) = 0 /\ hpc \in {"join", "done"} /\ ~OutlinePromptThrows(req.title)) =>
        /\ Len(titles) = (IF req.slideCount # 0 THEN req.slideCount ELSE 5)
        /\ Responded => Len(response.slides) = (IF req.slideCount # 0 THEN req.slideCount ELSE 5)

\* C3: a request ends in exactly one response, which is either the complete
\* slide list with meta, sent only after every slide task has fulfilled, or
\* a 500 error without slides; a task whose failure escapes the per-slide
\* recovery makes the response the 500 one; once nothing is left to run the
\* response has been sent.
C3_OneCompleteResponse ==
    /\ nResponses <= 1
    /\ (nResponses = 1) = (hpc = "done")
    /\ (nResponses = 1) = (response.status # 0)
    /\ response.status \in {0, 200, 500}
    /\ Responded =>
          /\ \A i \in DOMAIN tasks : tasks[i].pc = "fulfilled"
          /\ Len(response.slides) = Len(titles)
          /\ \A i \in 1..Len(response.slides) : response.slides[i].id # <<"", 0>>
          /\ Len(response.meta) = 1
          /\ response.meta[1].title = req.title
    /\ response.status = 500 => (response.slides = <<>> /\ response.meta = <<>>)
    /\ (\E i \in DOMAIN tasks : tasks[i].pc = "rejected") => response.status = 500
    /\ (\A i \in DOMAIN tasks : tasks[i].pc \in {"fulfilled", "rejected"}) =>
          (hpc \in {"start", "outline"} \/ nResponses = 1)

\* the 500 response was sent because one task rejected, and another task of
\* the same request ran on and fulfilled without a second response
C3_Witness ==
    /\ response.status = 500
    /\ nResponses = 1
    /\ \E i, j \in DOMAIN tasks : tasks[i].pc = "rejected" /\ tasks[j].pc = "fulfilled"

\* C10: in a response the slide at index 0 has layout image-left and every
\* other slide has one of the four layouts, whatever the content, the image
\* outcome and amountOfText.
C10_Layouts ==
    \A i \in DOMAIN tasks :
        tasks[i].pc = "fulfilled" =>
            /\ i = 1 => results[i].layout = "image-left"
            /\ results[i].layout \in {"image-left", "image-right", "image-bottom", "text-only"}
            /\ Responded => response.slides[i].layout = results[i].layout

\* a response whose second and third slide drew different layouts, one with
\* fallback content and no image, the other with generated content and an image
C10_Witness ==
    /\ Responded
    /\ Len(response.slides) >= 3
    /\ response.slides[1].layout = "image-left"
    /\ response.slides[2].layout = "text-only"
    /\ response.slides[3].layout = "image-bottom"
    /\ response.slides[2].image = <<>>
    /\ response.slides[3].image # <<>>
    /\ Len(response.slides[2].bullets) # Len(response.slides[3].bullets)

(***************************************************************************)
(* Properties of generateOutline and generateSlideContent                  *)
(***************************************************************************)
ContentCalled == call.fn = "generateSlideContent" /\ ret.state # "pending"

OutlineCalled == call.fn = "generateOutline" /\ ret.state # "pending"

\* the completion call was issued, that is, the prompt could be built
Issued == call.topic # NoPrim /\ call.slideTitle # NoPrim

\* the completion call failed, returned no content, or returned content
\* that is not one JSON document once the fences are removed
CallFailed == ~call.completion.ok

NoContent == call.completion.ok /\ call.completion.text = <<>>

Unparsable ==
    /\ call.completion.ok
    /\ call.completion.text # <<>>
    /\ ~\E k \in 1..Len(call.completion.text) : call.completion.text[k].tok = "json"

\* the JSON value a well-formed completion carries
HasJson ==
    /\ call.completion.ok
    /\ \E k \in 1..Len(call.completion.text) : call.completion.text[k].tok = "json"

JsonOf ==
    LET k == CHOOSE k \in 1..Len(call.completion.text) : call.completion.text[k].tok = "json"
    IN call.completion.text[k].val

IsPlaceholder(e) == e.isStr /\ e.text[2] = 0 /\ ~e.pad

IsPlaceholderContent(v, slideIndex) ==
    /\ Len(v) = (IF slideIndex = 0 THEN 1 ELSE 2)
    /\ \A i \in 1..Len(v) : IsPlaceholder(v[i])

IsFallbackOutline(v, topic) ==
    /\ Len(v) = 3
    /\ \A i \in 1..3 : Includes(v[i], topic) /\ Len(v[i]) > Len(topic)

\* C4: whenever the completion call fails, returns no content or returns
\* content that cannot be parsed, generateSlideContent does not throw and
\* returns the fixed fallback: one placeholder string for slide index 0,
\* two placeholder strings for every other index.
C4_ContentFallback ==
    (ContentCalled /\ Issued /\ (CallFailed \/ NoContent \/ Unparsable)) =>
        /\ ret.state = "returned"
        /\ IsPlaceholderContent(ret.value, call.slideIndex)

\* a completion that is not JSON, for slide index 3: two placeholders
C4_Witness ==
    /\ ContentCalled /\ Issued /\ Unparsable
    /\ call.slideIndex = 3
    /\ Len(ret.value) = 2

\* C5: when the completion call throws or returns unparsable or empty
\* content, generateOutline does not throw and returns exactly 3 fallback
\* titles, each containing the topic.
C5_OutlineFallback ==
    (OutlineCalled /\ Issued /\ (CallFailed \/ NoContent \/ Unparsable)) =>
        /\ ret.state = "returned"
        /\ IsFallbackOutline(ret.value, call.topic)

\* the call rejects while 2 titles were asked for: three fallback titles
C5_Witness ==
    /\ OutlineCalled /\ Issued /\ CallFailed
    /\ call.numSlides = 2
    /\ Len(ret.value) = 3

\* C6: well-formed JSON of the wrong shape yields the fallback, never an
\* empty result: in outline mode a value that is not an array yields the
\* three fallback titles, in content mode a value without the expected
\* bullets/paragraphs array yields the placeholder strings.
C6_WrongShapeIsFailure ==
    /\ (OutlineCalled /\ Issued /\ HasJson /\ JsonOf.kind # "array") =>
          IsFallbackOutline(ret.value, call.topic)
    /\ (ContentCalled /\ Issued /\ HasJson
            /\ ~(IF call.slideIndex = 2 THEN JsonOf.bullets.isArray
                                        ELSE JsonOf.paragraphs.isArray)) =>
          IsPlaceholderContent(ret.value, call.slideIndex)

\* C7: for a slide index other than 0 and 2 the number of entries is capped
\* by the density (Extensive 2, Detailed 2, Minimal 2, Concise exactly 1),
\* for every outcome of the completion call.
C7_ParagraphCap ==
    (ContentCalled /\ Issued /\ call.slideIndex \notin {0, 2}) =>
        /\ Len(ret.value) <= (IF call.amountOfText = "Concise" THEN 1 ELSE 2)
        /\ call.amountOfText = "Concise" => Len(ret.value) = 1

\* C8: for slide index 0 exactly 1 entry is returned, whatever amountOfText
\* and whatever the completion call returns.
C8_FirstSlideOneEntry ==
    (ContentCalled /\ Issued /\ call.slideIndex = 0) => Len(ret.value) = 1

\* C9: for slide index 2 the entries are the leading entries of the
\* response's bullets array, unchanged, at most 6 (Extensive), 5 (Detailed),
\* 4 (Concise) or 3 (Minimal and any other value) of them; the paragraphs
\* array has no influence and the paragraph caps are not applied.
C9_Cap ==
    IF call.amountOfText = "Extensive" THEN 6
    ELSE IF call.amountOfText = "Detailed" THEN 5
    ELSE IF call.amountOfText = "Concise" THEN 4
    ELSE 3

C9_ThirdSlideBullets ==
    (ContentCalled /\ Issued /\ call.slideIndex = 2) =>
        /\ ret.state = "returned"
        /\ ret.promptKind = "bullets"
        /\ Len(ret.value) <= C9_Cap
        /\ (HasJson /\ JsonOf.kind # "null") =>
              LET b == IF JsonOf.bullets.isArray THEN JsonOf.bullets.items ELSE <<>>
              IN /\ Len(ret.value) = Min(Len(b), C9_Cap)
                 /\ \A i \in 1..Len(ret.value) : ret.value[i] = b[i]

\* six bullets kept for Extensive although the response also carries a
\* paragraphs array with an entry that is not a string
C9_Witness ==
    /\ ContentCalled /\ Issued /\ call.slideIndex = 2
    /\ call.amountOfText = "Extensive"
    /\ HasJson
    /\ JsonOf.bullets.isArray /\ Len(JsonOf.bullets.items) = 7
    /\ JsonOf.paragraphs.isArray /\ Len(JsonOf.paragraphs.items) = 3
    /\ ~JsonOf.paragraphs.items[3].isStr
    /\ Len(ret.value) = 6

(***************************************************************************)
(* Properties of generateIdeogramImage, generateImageFilename and          *)
(* POST /api/generate-image                                                *)
(***************************************************************************)
ImageDone == img.call.pc = "done"

ImageAnswered == img.response.status # 0

\* C11: generateIdeogramImage never throws.  It returns null without any
\* outbound call when the API key is absent, and null when the image API
\* request fails, when the response has no URL, when the download fails or
\* when the file write fails; it returns a local /uploads/ path only when
\* the API call, the download and the write all succeeded.  POST
\* /api/generate-image then answers {imageUrl: null}, never an error.
C11_ImageNeverThrows ==
    /\ ~img.call.rejected
    /\ img.response.status \in {0, 200}
    /\ ~apiKey => (img.call.posts = 0 /\ img.call.gets = 0 /\ img.call.url = NoImage)
    /\ ImageDone =>
          /\ (\E k \in 1..Len(img.settled) :
                 img.settled[k] \in {"reject", "nourl", "get-reject", "write-throws"})
                => img.call.url = NoImage
          /\ img.call.url # NoImage =>
                /\ img.settled = <<"url", "ok", "written">>
                /\ img.call.posts = 1 /\ img.call.gets = 1 /\ img.call.writes = 1
                /\ Len(img.call.url) = 2
                /\ img.call.url[1] = "/uploads/"
                /\ img.call.url[2] = img.call.filename
    /\ ImageAnswered => img.response.imageUrl = img.call.url

\* the bytes were downloaded, the write threw, and the endpoint answered
\* {imageUrl: null}
C11_Witness ==
    /\ ImageAnswered
    /\ img.response.status = 200
    /\ img.response.imageUrl = NoImage
    /\ img.settled = <<"url", "ok", "write-throws">>

FilenameBuilt == img.call.filename # NoFilename

\* C13 as stated: the prompt fragment of the file name is the prompt with
\* all non-alphanumeric characters stripped, truncated to 20 characters.
C13_FragmentStripped ==
    FilenameBuilt =>
        LET kept == SelectSeq(img.req.prompt.chars, LAMBDA c : c \in {"a", "B", "7"})
        IN img.call.filename[4] = SubSeq(kept, 1, Min(20, Len(kept)))

\* C13 as amended: the file name is slide_<slideIndex>_<fragment>_<timestamp>.jpg,
\* determined by the prompt, the slide index and the timestamp alone; the
\* fragment is the first 20 characters of the prompt, each character that is
\* not a letter or a digit replaced by an underscore.
C13_FragmentReplaced ==
    FilenameBuilt =>
        LET f == img.call.filename
            p == img.req.prompt.chars
        IN /\ Len(f) = 7
           /\ f[1] = "slide_" /\ f[3] = "_" /\ f[5] = "_" /\ f[7] = ".jpg"
           /\ f[2] = img.req.slideIndex
           /\ f[6] \in Timestamps
           /\ f = generateImageFilename(p, f[2], f[6])
           /\ Len(f[4]) = Min(20, Len(p))
           /\ \A i \in 1..Len(f[4]) :
                 f[4][i] = (IF p[i] \in {"a", "B", "7"} THEN p[i] ELSE "_")

\* a file name built from a prompt of 21 characters, some of them blanks
C13_Witness ==
    /\ FilenameBuilt
    /\ Len(img.req.prompt.chars) = 21
    /\ \E i \in 1..20 : img.req.prompt.chars[i] = " " /\ img.call.filename[4][i] = "_"
    /\ Len(img.call.filename[4]) = 20

(***************************************************************************)
(* Properties of the outbound calls of POST /api/generate                  *)
(***************************************************************************)
\* C12: the image client is invoked for a slide only if imageSource is not
\* "None": with "None" no image call is made and no slide has an image;
\* otherwise a slide has an image exactly when the image client returned a
\* URL for it, and a slide whose image client returned null is still
\* delivered, without image.
C12_ImageOnlyOnRequest ==
    \A i \in DOMAIN tasks :
        /\ tasks[i].invoked <= 1
        /\ tasks[i].invoked = 1 => req.imageSource # "None"
        /\ req.imageSource = "None" =>
              (tasks[i].invoked = 0 /\ tasks[i].imageCalls = 0 /\ tasks[i].pc # "image")
        /\ tasks[i].pc = "fulfilled" =>
              /\ (req.imageSource # "None") = (tasks[i].invoked = 1)
              /\ results[i].id = <<"slide-", i>>
              /\ (results[i].image # <<>>) = (tasks[i].imageUrl # NoImage)
              /\ results[i].image # <<>> =>
                    (results[i].image[1].url = tasks[i].imageUrl /\ tasks[i].invoked = 1)
              /\ Responded => response.slides[i].image = results[i].image

\* a response in which the image client was invoked for every slide,
\* returned a URL for one and null for another
C12_Witness ==
    /\ Responded
    /\ req.imageSource # "None"
    /\ \A i \in DOMAIN tasks : tasks[i].invoked = 1
    /\ \E i, j \in 1..Len(response.slides) :
          /\ response.slides[i].image # <<>>
          /\ response.slides[j].image = <<>>
          /\ tasks[j].imageCalls = 1

\* no call is issued twice: one outline call at most, one content call and
\* one image API call per slide at most, one content call for each slide of
\* a response
NoRetry ==
    /\ outlineCalls <= 1
    /\ \A i \in DOMAIN tasks :
          /\ tasks[i].contentCalls <= 1
          /\ tasks[i].imageCalls <= 1
          /\ tasks[i].ic.posts <= 1 /\ tasks[i].ic.gets <= 1
    /\ Responded => \A i \in DOMAIN tasks : tasks[i].contentCalls = 1

\* C14: no external call is retried: a request that yields N slides issues
\* at most one outline completion call, exactly one content completion call
\* per slide and at most one image API call per slide, and at no moment has
\* more than N calls outstanding against either external API.
C14_AtMostNOutstanding ==
    /\ NoRetry
    /\ OutstandingImageCalls(tasks) <= Len(titles)
    /\ Responded => peak <= Len(response.slides)

(***************************************************************************)
(* Properties of ModernNavbar                                              *)
(***************************************************************************)
\* C15: as long as every click on a button was preceded by a mousedown on
\* that button, the theme dropdown and the menu dropdown are never both
\* open; a mousedown outside both dropdown containers leaves both closed;
\* choosing a theme calls onThemeChange once, with the key of that theme,
\* and closes the theme dropdown.
C15_Dropdowns ==
    /\ mouse.mouseOnly => ~(themeDropdownOpen /\ menuDropdownOpen)
    /\ (mouse.last.kind = "mousedown"
            /\ mouse.last.target.el \in {"page", "logo", "presentButton"}) =>
          (~themeDropdownOpen /\ ~menuDropdownOpen)
    /\ (mouse.last.kind \in {"click", "keyclick"} /\ mouse.last.target.el = "themeItem") =>
          /\ mouse.last.emitted = <<[name |-> "onThemeChange", key |-> mouse.last.target.key]>>
          /\ ~themeDropdownOpen

\* with the mouse alone: the menu was open, the theme dropdown was opened
\* (which closed the menu) and a theme was chosen
C15_Witness ==
    /\ mouse.mouseOnly
    /\ mouse.last.kind = "click"
    /\ mouse.last.target = [el |-> "themeItem", key |-> "dark"]
    /\ ~themeDropdownOpen
    /\ ~menuDropdownOpen

====
